---- MODULE Spec2Model ----
(***************************************************************************)
(* A model of get_tracks.py: the playlist extractor                        *)
(* (AppleMusicExtractor.method1_web_scraping / extract_tracks), the        *)
(* candidate matcher and downloader (YTD.calculate_confidence,             *)
(* YTD.search_song, get_tracks_on_yt) and the main program.                *)
(*                                                                         *)
(* Python strings whose characters matter (titles, artist names) are       *)
(* sequences of one-character strings; opaque strings (urls, ids) are      *)
(* TLA+ strings.  A Python dict is a function whose DOMAIN is its key set. *)
(* None is the empty sequence <<>> and a present value v is <<v>>.         *)
(* Floating-point confidences are exact integers counted in units of       *)
(* 1e-7; durations handled by the matcher are counted in thousandths.      *)
(***************************************************************************)
EXTENDS Integers, Sequences, FiniteSets, TLC

VARIABLES
    \* ---- playlist extractor ----
    page,           \* the page served for the playlist url: [fetchOk, blocks]
    xpc,            \* position in extract_tracks / method1_web_scraping
    bi,             \* index of the next script block (enumerate(scripts))
    scraped,        \* method1_web_scraping's local list `tracks`
    scrapeRet,      \* value returned by method1_web_scraping
    all_tracks,     \* extract_tracks' all_tracks
    unique_tracks,  \* extract_tracks' return value
    \* ---- matcher / downloader ----
    tracks,         \* the list of song dicts handed to get_tracks_on_yt
    orig,           \* history: the list as it was when the call began
    thresh,         \* the thresh argument (units of 1e-7)
    mpc,            \* position in get_tracks_on_yt
    ti,             \* index of the current track (for track in tracks)
    res,            \* candidates returned by search_song for the current track
    ri,             \* index of the next candidate (for r in res)
    confidence,     \* confidence of the candidate scored last
    best_conf,      \* running best confidence
    best_match,     \* <<>> (None) or <<candidate>>
    events,         \* history: searches and downloads issued, in order
    decision,       \* history: per processed track, "Matched" or "NoMatch"
    searchFailed,   \* history: per searched track, did the provider raise
    \* ---- main program ----
    playlists,      \* per positional url, what extract_tracks returns for it
    dont_save,      \* args.dont_save_tracklist
    mainpc,         \* position in the __main__ block
    pli,            \* index of the next playlist url
    mtracks,        \* the variable `tracks` of __main__: <<>> (None) or <<tracks_data>>
    attempted,      \* history: number of playlists get_tracklist was called for
    files           \* history: set of playlist indexes whose JSON file was written

xvars == <<page, xpc, bi, scraped, scrapeRet, all_tracks, unique_tracks>>
mvars == <<tracks, orig, thresh, mpc, ti, res, ri, confidence, best_conf, best_match,
           events, decision, searchFailed>>
pvars == <<playlists, dont_save, mainpc, pli, mtracks, attempted, files>>
vars == <<xvars, mvars, pvars>>

----------------------------------------------------------------------------
(* Bounds of the model *)
MaxBlocks == 2
MaxItems == 2
MaxTracks == 2
MaxCands == 2
MaxPlaylists == 2

----------------------------------------------------------------------------
(* Python string helpers *)

Uppers == <<"A","B","C","D","E","F","G","H","I","J","K","L","M",
            "N","O","P","Q","R","S","T","U","V","W","X","Y","Z">>
Lowers == <<"a","b","c","d","e","f","g","h","i","j","k","l","m",
            "n","o","p","q","r","s","t","u","v","w","x","y","z">>

LowerChar(c) ==
    IF \E k \in 1..Len(Uppers) : Uppers[k] = c
    THEN Lowers[CHOOSE k \in 1..Len(Uppers) : Uppers[k] = c]
    ELSE c

\* str.lower()
Lower(s) == [k \in 1..Len(s) |-> LowerChar(s[k])]

\* dict.get(key, default)
Get(d, key, default) == IF key \in DOMAIN d THEN d[key] ELSE default

----------------------------------------------------------------------------
(* Playlist extractor: inputs *)

\* track entries of a trackLockup section, as parsed JSON objects
EntAb == [title |-> <<"a","b">>, artistName |-> <<"x">>, duration |-> 200000,
          contentDescriptor |-> [url |-> "u1"]]
EntAB == [title |-> <<"A","B">>, artistName |-> <<"X">>, duration |-> 180000,
          contentDescriptor |-> [url |-> "u2"]]
EntB == [title |-> <<"b">>, artistName |-> <<"x">>, duration |-> 1000,
         contentDescriptor |-> [url |-> "u3"]]
EntNoTitle == [artistName |-> <<"x">>, duration |-> 1000,
               contentDescriptor |-> [url |-> "u4"]]
EntNoArtistNoDuration == [title |-> <<"b">>, contentDescriptor |-> [url |-> "u5"]]
EntNoDescriptor == [title |-> <<"c">>, artistName |-> <<"x">>, duration |-> 1000]
EntNoUrl == [title |-> <<"c">>, artistName |-> <<"x">>, duration |-> 1000,
             contentDescriptor |-> [kind |-> "song"]]

CoreEntries == {EntAb, EntAB, EntB}
SparseEntries == {EntNoTitle, EntNoArtistNoDuration, EntNoDescriptor, EntNoUrl}

SeqsUpTo(S, n) == UNION {[1..k -> S] : k \in 0..n}

\* item lists without a repeated entry, and lists holding a sparse entry
ItemLists ==
    {it \in SeqsUpTo(CoreEntries, MaxItems) :
        \A j, k \in 1..Len(it) : j # k => it[j] # it[k]}
    \cup {<<d>> : d \in SparseEntries}
    \cup {<<EntAb, d>> : d \in SparseEntries}
    \cup {<<d, EntB>> : d \in SparseEntries}

Lockup(items) == [itemKind |-> "trackLockup", items |-> items]
HeaderSection == [itemKind |-> "containerDetailHeaderLockup"]
SectionNoKind == [id |-> "s"]
LockupNoItems == [itemKind |-> "trackLockup"]

\* json.loads(script.string)[0] for a script whose text parses
Docs ==
    {[data |-> [sections |-> <<Lockup(it)>>]] : it \in ItemLists}
    \cup {[data |-> [sections |-> <<HeaderSection, Lockup(<<e>>)>>]] : e \in CoreEntries}
    \cup {[data |-> [sections |-> <<s>>]] : s \in {HeaderSection, SectionNoKind, LockupNoItems}}
    \cup {[intent |-> "x"], [data |-> [canonicalURL |-> "x"]]}

\* a <script type="application/json">: its text parses as JSON or not
Blocks == {[json |-> FALSE]} \cup {[json |-> TRUE, doc |-> d] : d \in Docs}

Pages ==
    {[fetchOk |-> FALSE, blocks |-> <<>>]}
    \cup {[fetchOk |-> TRUE, blocks |-> b] : b \in SeqsUpTo(Blocks, MaxBlocks)}

----------------------------------------------------------------------------
(* Playlist extractor: method1_web_scraping *)

\* Track(title=..., artist=..., duration=..., url=...) with the dataclass defaults
Track(title, artist, duration, url) ==
    [title |-> title, artist |-> artist, album |-> "", duration |-> duration,
     track_number |-> 0, album_art_url |-> "", url |-> url]

\* does track_data["contentDescriptor"]["url"] raise KeyError
UrlRaises(track_data) ==
    \/ "contentDescriptor" \notin DOMAIN track_data
    \/ "url" \notin DOMAIN track_data["contentDescriptor"]

TrackOfEntry(track_data) ==
    Track(Get(track_data, "title", <<>>),
          Get(track_data, "artistName", <<>>),
          Get(track_data, "duration", 0),
          track_data["contentDescriptor"]["url"])

\* for track_data in td['items']: ... tracks.append(track)
RECURSIVE ScanItems(_, _, _)
ScanItems(items, k, acc) ==
    IF k > Len(items) THEN [exc |-> "none", tracks |-> acc]
    ELSE IF UrlRaises(items[k]) THEN [exc |-> "KeyError", tracks |-> acc]
    ELSE ScanItems(items, k + 1, Append(acc, TrackOfEntry(items[k])))

\* for td in data['data']['sections']: if td['itemKind'] == 'trackLockup': ...
RECURSIVE ScanSections(_, _, _)
ScanSections(sections, k, acc) ==
    IF k > Len(sections) THEN [exc |-> "none", tracks |-> acc]
    ELSE LET td == sections[k] IN
         IF "itemKind" \notin DOMAIN td THEN [exc |-> "KeyError", tracks |-> acc]
         ELSE IF td["itemKind"] = "trackLockup"
         THEN IF "items" \notin DOMAIN td THEN [exc |-> "KeyError", tracks |-> acc]
              ELSE LET r == ScanItems(td["items"], 1, acc) IN
                   IF r.exc # "none" THEN r
                   ELSE ScanSections(sections, k + 1, r.tracks)
         ELSE ScanSections(sections, k + 1, acc)

\* the body of the inner try for one script block
ScanBlock(block, acc) ==
    IF ~block.json THEN [exc |-> "JSONDecodeError", tracks |-> acc]
    ELSE LET data == block.doc IN
         IF \/ "data" \notin DOMAIN data
            \/ "sections" \notin DOMAIN data["data"]
         THEN [exc |-> "KeyError", tracks |-> acc]
         ELSE ScanSections(data["data"]["sections"], 1, acc)

\* which exceptions the inner `except json.JSONDecodeError: continue` absorbs
CaughtPerBlock(exc) == exc = "JSONDecodeError"

\* session.get / raise_for_status / BeautifulSoup, inside the outer try
Fetch ==
    /\ xpc = "fetch"
    /\ IF page.fetchOk
       THEN /\ xpc' = "blocks"
            /\ bi' = 1
            /\ scraped' = <<>>
            /\ UNCHANGED scrapeRet
       ELSE /\ xpc' = "scraped"
            /\ scrapeRet' = <<>>
            /\ UNCHANGED <<bi, scraped>>
    /\ UNCHANGED <<page, all_tracks, unique_tracks, mvars, pvars>>

\* one iteration of `for i, script in enumerate(scripts)`
ProcessBlock ==
    /\ xpc = "blocks"
    /\ bi <= Len(page.blocks)
    /\ LET r == ScanBlock(page.blocks[bi], scraped) IN
       IF r.exc = "none" \/ CaughtPerBlock(r.exc)
       THEN /\ scraped' = r.tracks
            /\ bi' = bi + 1
            /\ UNCHANGED <<xpc, scrapeRet>>
       ELSE \* except Exception as e: return []
            /\ scrapeRet' = <<>>
            /\ xpc' = "scraped"
            /\ scraped' = r.tracks
            /\ UNCHANGED bi
    /\ UNCHANGED <<page, all_tracks, unique_tracks, mvars, pvars>>

\* the meta-tag lookup (diagnostic only) and `return tracks`
ScrapeReturn ==
    /\ xpc = "blocks"
    /\ bi > Len(page.blocks)
    /\ scrapeRet' = scraped
    /\ xpc' = "scraped"
    /\ UNCHANGED <<page, bi, scraped, all_tracks, unique_tracks, mvars, pvars>>

----------------------------------------------------------------------------
(* Playlist extractor: extract_tracks *)

\* faulty variant of DedupKey: the key is taken without lowercasing
DedupKeyCaseSensitive(track) == <<track.title, track.artist>>

\* key = (track.title.lower(), track.artist.lower())
DedupKey(track) == <<Lower(track.title), Lower(track.artist)>>

\* for track in all_tracks: if key not in seen: seen.add(key); unique_tracks.append(track)
RECURSIVE DedupLoop(_, _, _, _)
DedupLoop(all, k, seen, unique) ==
    IF k > Len(all) THEN unique
    ELSE LET key == DedupKey(all[k]) IN
         IF key \notin seen
         THEN DedupLoop(all, k + 1, seen \cup {key}, Append(unique, all[k]))
         ELSE DedupLoop(all, k + 1, seen, unique)

RemoveDuplicates(all) == DedupLoop(all, 1, {}, <<>>)

\* for method in ['scraping']: if tracks: all_tracks.extend(tracks); break
Gather ==
    /\ xpc = "scraped"
    /\ all_tracks' = IF Len(scrapeRet) > 0 THEN <<>> \o scrapeRet ELSE <<>>
    /\ xpc' = "gathered"
    /\ UNCHANGED <<page, bi, scraped, scrapeRet, unique_tracks, mvars, pvars>>

\* the "Remove duplicates" loop and `return unique_tracks`
Dedup ==
    /\ xpc = "gathered"
    /\ unique_tracks' = RemoveDuplicates(all_tracks)
    /\ xpc' = "done"
    /\ UNCHANGED <<page, bi, scraped, scrapeRet, all_tracks, mvars, pvars>>

----------------------------------------------------------------------------
(* Specification of the playlist extractor: extract_tracks(playlist_url)   *)
(* on every page of Pages.                                                 *)

ExtractorIdle ==
    /\ page = [fetchOk |-> FALSE, blocks |-> <<>>]
    /\ xpc = "idle"
    /\ bi = 1
    /\ scraped = <<>>
    /\ scrapeRet = <<>>
    /\ all_tracks = <<>>
    /\ unique_tracks = <<>>

MatcherIdle ==
    /\ tracks = <<>>
    /\ orig = <<>>
    /\ thresh = 0
    /\ mpc = "idle"
    /\ ti = 1
    /\ res = <<>>
    /\ ri = 1
    /\ confidence = 0
    /\ best_conf = 0
    /\ best_match = <<>>
    /\ events = <<>>
    /\ decision = <<>>
    /\ searchFailed = <<>>

MainIdle ==
    /\ playlists = <<>>
    /\ dont_save = FALSE
    /\ mainpc = "idle"
    /\ pli = 1
    /\ mtracks = <<>>
    /\ attempted = 0
    /\ files = {}

InitExtract ==
    /\ page \in Pages
    /\ xpc = "fetch"
    /\ bi = 1
    /\ scraped = <<>>
    /\ scrapeRet = <<>>
    /\ all_tracks = <<>>
    /\ unique_tracks = <<>>
    /\ MatcherIdle
    /\ MainIdle

NextExtract ==
    \/ Fetch
    \/ ProcessBlock
    \/ ScrapeReturn
    \/ Gather
    \/ Dedup

SpecExtract == InitExtract /\ [][NextExtract]_vars

----------------------------------------------------------------------------
(* Claims about the playlist extractor *)

\* two records have the same (title, artist) key, compared case-insensitively
SameKeyCI(t, u) ==
    /\ Lower(t.title) = Lower(u.title)
    /\ Lower(t.artist) = Lower(u.artist)

\* positions of the gathered list whose key did not occur at an earlier position
FirstSeen(all) ==
    {k \in 1..Len(all) : \A j \in 1..(k - 1) : ~SameKeyCI(all[j], all[k])}

\* the n-th smallest element of a set of positions
NthOf(S, n) == CHOOSE k \in S : Cardinality({j \in S : j <= k}) = n

\* C1: the list returned by extract_tracks is exactly the gathered list
\* without the records whose case-insensitive (title, artist) key occurred
\* earlier: no two returned records share a key, every gathered key is kept
\* once, and the kept records are in first-seen order.
C1_DedupFirstSeen ==
    xpc = "done" =>
        /\ \A i, j \in 1..Len(unique_tracks) :
               i # j => ~SameKeyCI(unique_tracks[i], unique_tracks[j])
        /\ \A k \in 1..Len(all_tracks) :
               \E i \in 1..Len(unique_tracks) :
                   SameKeyCI(unique_tracks[i], all_tracks[k])
        /\ Len(unique_tracks) = Cardinality(FirstSeen(all_tracks))
        /\ \A n \in 1..Len(unique_tracks) :
               unique_tracks[n] = all_tracks[NthOf(FirstSeen(all_tracks), n)]

\* a run where a record differing only in case from an earlier one was
\* dropped and a later, different record was kept after it
C1_Witness ==
    /\ xpc = "done"
    /\ Len(unique_tracks) >= 2
    /\ \E j, k, m \in 1..Len(all_tracks) :
           /\ j < k /\ k < m
           /\ all_tracks[j].title # all_tracks[k].title
           /\ SameKeyCI(all_tracks[j], all_tracks[k])
           /\ ~SameKeyCI(all_tracks[j], all_tracks[m])

\* a block has the shape the scraper reads: a JSON document with
\* data.sections, every section with an itemKind, every trackLockup with items
BlockShapeOk(b) ==
    /\ b.json
    /\ "data" \in DOMAIN b.doc
    /\ "sections" \in DOMAIN b.doc["data"]
    /\ \A k \in 1..Len(b.doc["data"]["sections"]) :
           LET td == b.doc["data"]["sections"][k] IN
           /\ "itemKind" \in DOMAIN td
           /\ td["itemKind"] = "trackLockup" => "items" \in DOMAIN td

\* the track entries of a well-shaped block, in page order
RECURSIVE EntriesOfSections(_)
EntriesOfSections(sections) ==
    IF sections = <<>> THEN <<>>
    ELSE (IF Head(sections)["itemKind"] = "trackLockup"
          THEN Head(sections)["items"] ELSE <<>>)
         \o EntriesOfSections(Tail(sections))

EntriesOfBlock(b) ==
    IF BlockShapeOk(b) THEN EntriesOfSections(b.doc["data"]["sections"]) ELSE <<>>

RECURSIVE EntriesOfBlocks(_)
EntriesOfBlocks(blocks) ==
    IF blocks = <<>> THEN <<>>
    ELSE EntriesOfBlock(Head(blocks)) \o EntriesOfBlocks(Tail(blocks))

\* the record the specification promises for an entry: absent fields become
\* the empty string or zero
RecordWithDefaults(e) ==
    Track(Get(e, "title", <<>>), Get(e, "artistName", <<>>), Get(e, "duration", 0),
          IF "contentDescriptor" \in DOMAIN e /\ "url" \in DOMAIN e["contentDescriptor"]
          THEN e["contentDescriptor"]["url"] ELSE "")

EntryComplete(e) ==
    /\ "contentDescriptor" \in DOMAIN e
    /\ "url" \in DOMAIN e["contentDescriptor"]

\* C8: a malformed block (invalid JSON, or valid JSON of an unexpected
\* shape) is skipped individually, so a fetched page whose well-shaped
\* blocks hold only complete entries returns the tracks of all its
\* well-shaped blocks, those before and after a malformed block included.
C8_MalformedBlockSkipped ==
    ( /\ xpc = "scraped"
      /\ page.fetchOk
      /\ \A k \in 1..Len(EntriesOfBlocks(page.blocks)) :
             EntryComplete(EntriesOfBlocks(page.blocks)[k]) )
    => scrapeRet = [k \in 1..Len(EntriesOfBlocks(page.blocks)) |->
                       RecordWithDefaults(EntriesOfBlocks(page.blocks)[k])]

\* C9: on a fetched page whose blocks all have the expected shape, every
\* track entry yields a record, with an empty string or zero for each
\* absent field (title, artist name, duration, source url).
C9_AbsentFieldDefaults ==
    ( /\ xpc = "scraped"
      /\ page.fetchOk
      /\ \A k \in 1..Len(page.blocks) : BlockShapeOk(page.blocks[k]) )
    => scrapeRet = [k \in 1..Len(EntriesOfBlocks(page.blocks)) |->
                       RecordWithDefaults(EntriesOfBlocks(page.blocks)[k])]

----------------------------------------------------------------------------
(* Candidate matcher: string similarity (fuzz.ratio over difflib) *)

Min(a, b) == IF a <= b THEN a ELSE b

\* SequenceMatcher.find_longest_match over whole strings: the longest common
\* block, of those the one starting earliest in a, then earliest in b
CommonBlocks(a, b) ==
    {c \in (1..Len(a)) \X (1..Len(b)) \X (1..Min(Len(a), Len(b))) :
        /\ c[1] + c[3] - 1 <= Len(a)
        /\ c[2] + c[3] - 1 <= Len(b)
        /\ \A d \in 0..(c[3] - 1) : a[c[1] + d] = b[c[2] + d]}

LongestMatch(blocks) ==
    CHOOSE c \in blocks :
        \A o \in blocks :
            \/ c[3] > o[3]
            \/ c[3] = o[3] /\ c[1] < o[1]
            \/ c[3] = o[3] /\ c[1] = o[1] /\ c[2] <= o[2]

\* number of matched characters: SequenceMatcher.get_matching_blocks
RECURSIVE Matches(_, _)
Matches(a, b) ==
    LET blocks == CommonBlocks(a, b) IN
    IF blocks = {} THEN 0
    ELSE LET m == LongestMatch(blocks) IN
         m[3] + Matches(SubSeq(a, 1, m[1] - 1), SubSeq(b, 1, m[2] - 1))
              + Matches(SubSeq(a, m[1] + m[3], Len(a)), SubSeq(b, m[2] + m[3], Len(b)))

\* int(round(n / d)) with Python's round-half-to-even, for n >= 0, d > 0
RoundDiv(n, d) ==
    LET q == n \div d
        r == n % d
    IN  IF 2 * r > d THEN q + 1
        ELSE IF 2 * r < d THEN q
        ELSE IF q % 2 = 0 THEN q ELSE q + 1

\* fuzz.ratio(s1, s2): intr(100 * SequenceMatcher(None, s1, s2).ratio())
Ratio(s1, s2) ==
    IF s1 = s2 THEN 100
    ELSE IF Len(s1) = 0 \/ Len(s2) = 0 THEN 0
    ELSE RoundDiv(200 * Matches(s1, s2), Len(s1) + Len(s2))

----------------------------------------------------------------------------
(* Candidate matcher: YTD.calculate_confidence *)

\* str.replace(w, ''): remove the non-overlapping occurrences of w, left to right
RECURSIVE Remove(_, _)
Remove(s, w) ==
    IF Len(s) < Len(w) THEN s
    ELSE IF SubSeq(s, 1, Len(w)) = w THEN Remove(SubSeq(s, Len(w) + 1, Len(s)), w)
    ELSE <<Head(s)>> \o Remove(Tail(s), w)

IsSpace(c) == c \in {" ", "\t", "\n"}

\* str.strip()
RECURSIVE Strip(_)
Strip(s) ==
    IF s = <<>> THEN s
    ELSE IF IsSpace(Head(s)) THEN Strip(Tail(s))
    ELSE IF IsSpace(s[Len(s)]) THEN Strip(SubSeq(s, 1, Len(s) - 1))
    ELSE s

keywords ==
    << <<"(">>, <<")">>, <<"[">>, <<"]">>, <<"h","d">>,
       <<"o","r","i","g","i","n","a","l">>, <<"l","y","r","i","c","s">>,
       <<"v","i","d","e","o">>, <<"l","y","r","i","c","s">>,
       <<"o","f","f","i","c","i","a","l">> >>

\* for w in keywords: result_title = result_title.replace(w, '')
RECURSIVE RemoveKeywords(_, _)
RemoveKeywords(s, k) ==
    IF k > Len(keywords) THEN s
    ELSE RemoveKeywords(Remove(s, keywords[k]), k + 1)

\* result_title after lowercasing, keyword removal and strip
NormalizeTitle(result) ==
    Strip(RemoveKeywords(Lower(Get(result, "title", <<>>)), 1))

\* result_artists = [artist['name'].lower() for artist in result.get('artists', [])]
ResultArtists(result) ==
    LET artists == Get(result, "artists", <<>>) IN
    [k \in 1..Len(artists) |-> Lower(artists[k]["name"])]

\* max(artist_scores)
RECURSIVE MaxOf(_)
MaxOf(scores) ==
    IF Len(scores) = 1 THEN scores[1]
    ELSE LET m == MaxOf(Tail(scores)) IN
         IF Head(scores) >= m THEN Head(scores) ELSE m

Abs(x) == IF x < 0 THEN -x ELSE x

\* faulty variant of CalculateConfidence: a negative confidence is raised to 0
CalculateConfidenceClamped(original, result) ==
    LET title_score == Ratio(Lower(original["title"]), NormalizeTitle(result))
        artist_scores == [k \in 1..Len(ResultArtists(result)) |->
                             Ratio(Lower(original["artist"]), ResultArtists(result)[k])]
        artist_score == IF Len(artist_scores) > 0 THEN MaxOf(artist_scores) ELSE 0
        dur_diff == Abs(original["duration"] - result["duration"])
        c == title_score * 40000 + artist_score * 60000 - dur_diff * 2
    IN  IF c < 0 THEN 0 ELSE c

\* calculate_confidence(original, result), in units of 1e-7: the ratios are
\* whole percents (x/100 * 0.4 = 40000e-7 x) and the durations thousandths
\* of a second (0.001 * 0.0002 = 2e-7)
CalculateConfidence(original, result) ==
    LET title_score == Ratio(Lower(original["title"]), NormalizeTitle(result))
        artist_scores == [k \in 1..Len(ResultArtists(result)) |->
                             Ratio(Lower(original["artist"]), ResultArtists(result)[k])]
        artist_score == IF Len(artist_scores) > 0 THEN MaxOf(artist_scores) ELSE 0
        dur_diff == Abs(original["duration"] - result["duration"])
    IN  title_score * 40000 + artist_score * 60000 - dur_diff * 2

----------------------------------------------------------------------------
(* Candidate matcher: inputs *)

\* a whole number n as a count of thousandths
Num(n) == n * 1000

\* thresh = 0.2, in units of 1e-7
DefaultThresh == 2000000

\* the song dicts written by get_tracklist (duration in milliseconds)
SongAb == [title |-> <<"A","b">>, artist |-> <<"X">>, album |-> "",
           duration |-> Num(200000)]
SongB == [title |-> <<"b">>, artist |-> <<"y">>, album |-> "",
          duration |-> Num(0)]
Songs == {SongAb, SongB}

\* search results (duration in seconds)
CandExact == [title |-> <<"A","B"," ","(","h","d",")">>,
              artists |-> <<[name |-> <<"X">>]>>, duration |-> Num(203), id |-> "v1"]
CandNoArtists == [title |-> <<"a","c">>, artists |-> <<>>,
                  duration |-> Num(200), id |-> "v2"]
CandTie == [title |-> <<"[","a","c","]"," ","v","i","d","e","o">>,
            duration |-> Num(200), id |-> "v3"]
CandFar == [artists |-> <<[name |-> <<"z">>], [name |-> <<"Y">>]>>,
            duration |-> Num(40000), id |-> "v4"]
Candidates == {CandExact, CandNoArtists, CandTie, CandFar}

\* what ydl.extract_info does for one query: raises, returns a result
\* without 'entries', or returns entries
SearchOutcomes ==
    {[kind |-> "raised", entries |-> <<>>], [kind |-> "noentries", entries |-> <<>>]}
    \cup {[kind |-> "entries", entries |-> e] : e \in SeqsUpTo(Candidates, MaxCands)}

Thresholds == {DefaultThresh, DefaultThresh \div 2}

----------------------------------------------------------------------------
(* Candidate matcher: YTD.search_song and get_tracks_on_yt *)

\* search_song: entries if present, [] otherwise and on any exception
SearchSong(outcome) ==
    IF outcome.kind = "entries" THEN outcome.entries ELSE <<>>

\* faulty variant of ConvertDuration: the record is left as it was
ConvertDurationNoop(track) == track

\* track['duration'] = track['duration']/1000.0
ConvertDuration(track) == [track EXCEPT !["duration"] = @ \div 1000]

\* faulty variant of ScoreStep: a candidate equal to the running best replaces it
ScoreStepNonStrict(bc, bm, r, conf) ==
    IF bc <= conf THEN [best_conf |-> conf, best_match |-> <<r>>]
    ELSE [best_conf |-> bc, best_match |-> bm]

\* faulty variant of ScoreStep: the running best confidence is not updated
ScoreStepKeepsThreshold(bc, bm, r, conf) ==
    IF bc < conf THEN [best_conf |-> bc, best_match |-> <<r>>]
    ELSE [best_conf |-> bc, best_match |-> bm]

\* if best_conf < confidence: best_match = r; best_conf = confidence
ScoreStep(bc, bm, r, conf) ==
    IF bc < conf THEN [best_conf |-> conf, best_match |-> <<r>>]
    ELSE [best_conf |-> bc, best_match |-> bm]

\* faulty variant of ShouldDownload: the download is issued for every track
ShouldDownloadAlways(bm) == TRUE

\* if best_match is not None
ShouldDownload(bm) == bm # <<>>

\* top of `for track in tracks`: duration conversion, search, loop set-up
SearchTrack ==
    /\ mpc = "loop"
    /\ ti <= Len(tracks)
    /\ \E outcome \in SearchOutcomes :
           /\ res' = SearchSong(outcome)
           /\ searchFailed' = Append(searchFailed, outcome.kind = "raised")
    /\ tracks' = [tracks EXCEPT ![ti] = ConvertDuration(@)]
    /\ events' = Append(events, <<"search", ti>>)
    /\ best_conf' = thresh
    /\ best_match' = <<>>
    /\ ri' = 1
    /\ mpc' = "score"
    /\ UNCHANGED <<orig, thresh, ti, confidence, decision, xvars, pvars>>

\* one iteration of `for r in res`
ScoreCandidate ==
    /\ mpc = "score"
    /\ ri <= Len(res)
    /\ LET conf == CalculateConfidence(tracks[ti], res[ri])
           step == ScoreStep(best_conf, best_match, res[ri], conf)
       IN  /\ confidence' = conf
           /\ best_conf' = step.best_conf
           /\ best_match' = step.best_match
    /\ ri' = ri + 1
    /\ UNCHANGED <<tracks, orig, thresh, mpc, ti, res, events, decision,
                   searchFailed, xvars, pvars>>

\* `if best_match is not None` after the candidate loop
Decide ==
    /\ mpc = "score"
    /\ ri > Len(res)
    /\ IF ShouldDownload(best_match)
       THEN /\ mpc' = "download"
            /\ UNCHANGED ti
       ELSE /\ mpc' = "loop"
            /\ ti' = ti + 1
    /\ decision' = Append(decision, IF best_match # <<>> THEN "Matched" ELSE "NoMatch")
    /\ UNCHANGED <<tracks, orig, thresh, res, ri, confidence, best_conf, best_match,
                   events, searchFailed, xvars, pvars>>

\* ydl.download([video_url]) returns
DownloadOk ==
    /\ mpc = "download"
    /\ events' = Append(events, <<"download", ti>>)
    /\ ti' = ti + 1
    /\ mpc' = "loop"
    /\ UNCHANGED <<tracks, orig, thresh, res, ri, confidence, best_conf, best_match,
                   decision, searchFailed, xvars, pvars>>

\* ydl.download([video_url]) raises DownloadError (ignoreerrors is not
\* set in ydl_opts); nothing in get_tracks_on_yt catches it
DownloadRaises ==
    /\ mpc = "download"
    /\ events' = Append(events, <<"download", ti>>)
    /\ mpc' = "raised"
    /\ UNCHANGED <<tracks, orig, thresh, ti, res, ri, confidence, best_conf, best_match,
                   decision, searchFailed, xvars, pvars>>

\* the track list is exhausted: get_tracks_on_yt returns
FinishTracks ==
    /\ mpc = "loop"
    /\ ti > Len(tracks)
    /\ mpc' = "done"
    /\ UNCHANGED <<tracks, orig, thresh, ti, res, ri, confidence, best_conf, best_match,
                   events, decision, searchFailed, xvars, pvars>>

InitMatch ==
    /\ tracks \in SeqsUpTo(Songs, MaxTracks)
    /\ orig = tracks
    /\ thresh \in Thresholds
    /\ mpc = "loop"
    /\ ti = 1
    /\ res = <<>>
    /\ ri = 1
    /\ confidence = 0
    /\ best_conf = 0
    /\ best_match = <<>>
    /\ events = <<>>
    /\ decision = <<>>
    /\ searchFailed = <<>>
    /\ ExtractorIdle
    /\ MainIdle

NextMatch ==
    \/ SearchTrack
    \/ ScoreCandidate
    \/ Decide
    \/ DownloadOk
    \/ DownloadRaises
    \/ FinishTracks

SpecMatch == InitMatch /\ [][NextMatch]_vars

----------------------------------------------------------------------------
(* Claims about the candidate matcher *)

\* a decision has been taken for the track whose candidates are in res
Decided == mpc # "score" /\ Len(decision) >= 1

\* index of the track decided last
Last == Len(decision)

\* confidence of the k-th candidate returned for the track decided last
ConfOf(k) == CalculateConfidence(tracks[Last], res[k])

\* C2: the selection loop yields a match if and only if some candidate has
\* confidence strictly greater than the threshold; a candidate scoring
\* exactly the threshold is never selected and no candidates means NoMatch.
C2_StrictThreshold ==
    Decided =>
        /\ (decision[Last] = "Matched") <=> (\E k \in 1..Len(res) : ConfOf(k) > thresh)
        /\ (decision[Last] = "Matched") <=> (best_match # <<>>)
        /\ best_match # <<>> =>
               CalculateConfidence(tracks[Last], best_match[1]) > thresh
        /\ res = <<>> => decision[Last] = "NoMatch"

\* a NoMatch decision although a candidate scored exactly the threshold
C2_Witness ==
    /\ Decided
    /\ decision[Last] = "NoMatch"
    /\ \E k \in 1..Len(res) : ConfOf(k) = thresh

\* C3: a selected candidate has the highest confidence of all candidates
\* returned for the track, and is the earliest candidate with that confidence.
C3_BestEarliest ==
    (Decided /\ decision[Last] = "Matched") =>
        \E k \in 1..Len(res) :
            /\ best_match = <<res[k]>>
            /\ best_conf = ConfOf(k)
            /\ \A j \in 1..Len(res) : ConfOf(j) <= ConfOf(k)
            /\ \A j \in 1..(k - 1) : ConfOf(j) < ConfOf(k)

\* a match where two different candidates tie for the highest confidence
\* and the earlier one was selected
C3_Witness ==
    /\ Decided
    /\ decision[Last] = "Matched"
    /\ \E j, k \in 1..Len(res) :
           /\ j < k
           /\ res[j] # res[k]
           /\ ConfOf(j) = ConfOf(k)
           /\ \A m \in 1..Len(res) : ConfOf(m) <= ConfOf(j)
           /\ best_match = <<res[j]>>

EventsFor(kind, i) == {p \in 1..Len(events) : events[p] = <<kind, i>>}

C5_ConfidenceFormula ==
    (mpc = "score" /\ ri > 1) =>
        LET t == tracks[ti]
            r == res[ri - 1]
            titleSim == Ratio(Lower(t["title"]), NormalizeTitle(r))
            sims == {Ratio(Lower(t["artist"]), ResultArtists(r)[k]) :
                        k \in 1..Len(ResultArtists(r))}
            artistSim == IF sims = {} THEN 0
                         ELSE CHOOSE m \in sims : \A o \in sims : o <= m
            gap == IF t["duration"] >= r["duration"]
                   THEN t["duration"] - r["duration"]
                   ELSE r["duration"] - t["duration"]
        IN  confidence = 40000 * titleSim + 60000 * artistSim - 2 * gap

\* a scored candidate with several artist names, the best of them not the
\* first, whose confidence is negative
C5_Witness ==
    /\ mpc = "score"
    /\ ri > 1
    /\ confidence < 0
    /\ Len(ResultArtists(res[ri - 1])) >= 2
    /\ Ratio(Lower(tracks[ti]["artist"]), ResultArtists(res[ri - 1])[1])
           < Ratio(Lower(tracks[ti]["artist"]), ResultArtists(res[ri - 1])[2])

\* C7: a failure while handling one track is terminal for that track only:
\* a search error gives the decision NoMatch, and when the run ends every
\* track of the list has been searched.
C7_FailureIsPerTrack ==
    /\ \A i \in 1..Len(decision) : searchFailed[i] => decision[i] = "NoMatch"
    /\ mpc \in {"done", "raised"} => Len(searchFailed) = Len(tracks)

\* C10 as claimed: after get_tracks_on_yt has run, every track record has
\* the title, artist, album and duration it had before the call.
C10_TracksUnchanged ==
    mpc = "done" =>
        \A i \in 1..Len(tracks) :
            /\ tracks[i]["title"] = orig[i]["title"]
            /\ tracks[i]["artist"] = orig[i]["artist"]
            /\ tracks[i]["album"] = orig[i]["album"]
            /\ tracks[i]["duration"] = orig[i]["duration"]

\* C10 as amended: the list keeps its length, and every record keeps its
\* title, artist and album; the duration of every track the loop has
\* reached is its original duration divided by 1000, the others are untouched.
C10_OnlyDurationRescaled ==
    /\ Len(tracks) = Len(orig)
    /\ \A i \in 1..Len(tracks) :
           /\ tracks[i]["title"] = orig[i]["title"]
           /\ tracks[i]["artist"] = orig[i]["artist"]
           /\ tracks[i]["album"] = orig[i]["album"]
           /\ IF i <= Len(searchFailed)
              THEN /\ orig[i]["duration"] % 1000 = 0
                   /\ tracks[i]["duration"] = orig[i]["duration"] \div 1000
              ELSE tracks[i]["duration"] = orig[i]["duration"]

\* a finished run that changed the duration of a record
C10_Witness ==
    /\ mpc = "done"
    /\ \E i \in 1..Len(tracks) : tracks[i]["duration"] # orig[i]["duration"]

----------------------------------------------------------------------------
(* Main program: get_tracklist and the __main__ block *)

\* what extract_tracks returns for a playlist url (durations as extracted)
ExtractedNone == <<>>
ExtractedOne == <<Track(<<"a","b">>, <<"x">>, 200000, "u1")>>
ExtractedTwo == <<Track(<<"a","b">>, <<"x">>, 200000, "u1"),
                  Track(<<"b">>, <<"y">>, 1000, "u3")>>

PlaylistInputs ==
    {[url |-> "pl.a", extracted |-> ExtractedNone],
     [url |-> "pl.b", extracted |-> ExtractedOne],
     [url |-> "pl.c", extracted |-> ExtractedTwo],
     [url |-> "pl.d", extracted |-> ExtractedNone]}

\* the "songs" list of tracks_data
SongsOf(extracted) ==
    [k \in 1..Len(extracted) |->
        [title |-> extracted[k].title, artist |-> extracted[k].artist,
         album |-> extracted[k].album, duration |-> extracted[k].duration]]

\* get_tracklist's return value: tracks_data, or None when no tracks were found
GetTracklistResult(pl) ==
    IF Len(pl.extracted) > 0
    THEN << [playlist_url |-> pl.url, total_tracks |-> Len(pl.extracted),
             songs |-> SongsOf(pl.extracted)] >>
    ELSE <<>>

\* one iteration of `for url in args.playlists: tracks = get_tracklist(...)`
GetTracklist ==
    /\ mainpc = "playlists"
    /\ pli <= Len(playlists)
    /\ mtracks' = GetTracklistResult(playlists[pli])
    /\ files' = IF Len(playlists[pli].extracted) > 0 /\ ~dont_save
                THEN files \cup {playlists[pli].url} ELSE files
    /\ attempted' = attempted + 1
    /\ pli' = pli + 1
    /\ UNCHANGED <<playlists, dont_save, mainpc, xvars, mvars>>

\* get_tracks_on_yt(tracks['songs']) after the loop: subscripting None
\* raises TypeError, which nothing catches
EnterDownloadStage ==
    /\ mainpc = "playlists"
    /\ pli > Len(playlists)
    /\ mainpc' = IF mtracks = <<>> THEN "TypeError" ELSE "downloading"
    /\ UNCHANGED <<playlists, dont_save, pli, mtracks, attempted, files, xvars, mvars>>

\* get_tracks_on_yt returns and the script ends
DownloadStageReturns ==
    /\ mainpc = "downloading"
    /\ mainpc' = "exit"
    /\ UNCHANGED <<playlists, dont_save, pli, mtracks, attempted, files, xvars, mvars>>

\* get_tracks_on_yt raises (a download error of a matched track)
DownloadStageRaises ==
    /\ mainpc = "downloading"
    /\ mainpc' = "DownloadError"
    /\ UNCHANGED <<playlists, dont_save, pli, mtracks, attempted, files, xvars, mvars>>

InitMain ==
    /\ playlists \in UNION {[1..n -> PlaylistInputs] : n \in 1..MaxPlaylists}
    /\ dont_save \in BOOLEAN
    /\ mainpc = "playlists"
    /\ pli = 1
    /\ mtracks = <<>>
    /\ attempted = 0
    /\ files = {}
    /\ ExtractorIdle
    /\ MatcherIdle

NextMain ==
    \/ GetTracklist
    \/ EnterDownloadStage
    \/ DownloadStageReturns
    \/ DownloadStageRaises

SpecMain == InitMain /\ [][NextMain]_vars

\* C6: for every sequence of playlist urls, also when some playlist (the
\* last included) yields no tracks, every playlist is attempted and the
\* process then reaches the download stage, never ending in a TypeError.
C6_ReachesDownloadStage ==
    (mainpc # "playlists" \/ pli > Len(playlists)) =>
        /\ attempted = Len(playlists)
        /\ mainpc # "TypeError"

====
